---- MODULE Spec2Model ----
(***************************************************************************)
(* A model of src/main.py: the ADA recommendation pipeline                 *)
(*   fetch_ada_price -> fetch_news_headlines -> analyze_sentiment ->       *)
(*   make_decision, sequenced by run_agentic_ai.                           *)
(*                                                                         *)
(* Numbers.  Prices are integers in cents.  Classifier confidences and the *)
(* signed per-headline scores are integers in tenths (9 is 0.9).  The      *)
(* aggregate is the exact rational num/den in tenths, so the thresholds    *)
(* 0.3 and -0.3 of make_decision are the integers 3 and -3 against         *)
(* num/den.  Floating-point rounding of np.mean is not modelled.           *)
(***************************************************************************)
EXTENDS Integers, Sequences, FiniteSets, TLC

VARIABLES
    pc,             \* position of run_agentic_ai
    response,       \* outcome of requests.get in fetch_ada_price
    n_requests,     \* number of HTTP requests issued
    price,          \* local `price` of run_agentic_ai
    headlines,      \* local `headlines` of run_agentic_ai
    scores,         \* local `scores` of analyze_sentiment
    i,              \* position of the for loop of analyze_sentiment (1-based)
    classifier_log, \* every sentiment_pipeline(headline) call and what it gave
    avg_sentiment,  \* local `avg_sentiment` of run_agentic_ai
    decision,       \* local `decision` of run_agentic_ai
    calls,          \* the stage functions run_agentic_ai has invoked, in order
    output,         \* the values printed to standard output, in order
    exc             \* the exception propagating out of run_agentic_ai, if any

vars == <<pc, response, n_requests, price, headlines, scores, i,
          classifier_log, avg_sentiment, decision, calls, output, exc>>

----------------------------------------------------------------------------
(* Python values a price can be *)

None == [t |-> "None", v |-> 0]

Unset == [t |-> "unset", v |-> 0]

Num(n) == [t |-> "num", v |-> n]

Str == [t |-> "str", v |-> 0]

\* what the JSON field cardano.usd can hold: a positive quote, zero, a
\* negative number, a string, or JSON null (None in Python)
UsdValues == {Num(45), Num(0), Num(-45), Str, None}

----------------------------------------------------------------------------
(* The HTTP exchange *)

BodyKinds == {"not_json", "json_array", "no_cardano", "cardano_scalar", "no_usd", "quote"}

Bodies ==
    {[kind |-> k, usd |-> None] : k \in BodyKinds \ {"quote"}}
    \cup {[kind |-> "quote", usd |-> u] : u \in UsdValues}

StatusCodes == {200, 500}

NoBody == [kind |-> "none", usd |-> None]

NotSent == [net |-> "unsent", status |-> 0, body |-> NoBody]

Responses ==
    {[net |-> "error", status |-> 0, body |-> NoBody]}
    \cup {[net |-> "ok", status |-> s, body |-> b] : s \in StatusCodes, b \in Bodies}

\* The statements of the try block, in order; the first that raises decides.
\* requests.get raises only when the transport fails: the status is not read.
TryBody(resp) ==
    IF resp.net = "error" THEN [exc |-> "ConnectionError", value |-> None]
    ELSE IF resp.body.kind = "not_json" THEN [exc |-> "JSONDecodeError", value |-> None]
    ELSE IF resp.body.kind = "json_array" THEN [exc |-> "TypeError", value |-> None]
    ELSE IF resp.body.kind = "no_cardano" THEN [exc |-> "KeyError", value |-> None]
    ELSE IF resp.body.kind = "cardano_scalar" THEN [exc |-> "TypeError", value |-> None]
    ELSE IF resp.body.kind = "no_usd" THEN [exc |-> "KeyError", value |-> None]
    ELSE [exc |-> "none", value |-> resp.body.usd]

\* the classes `except Exception` catches
ExceptionSubclasses == {"ConnectionError", "JSONDecodeError", "KeyError", "TypeError"}

Caught_KeyErrorOnly(e) == e = "KeyError"

Caught(e) == e \in ExceptionSubclasses

fetch_ada_price(resp) ==
    LET r == TryBody(resp) IN
    IF r.exc = "none" THEN [raised |-> "none", value |-> r.value]
    ELSE IF Caught(r.exc) THEN [raised |-> "none", value |-> None]
    ELSE [raised |-> r.exc, value |-> None]

----------------------------------------------------------------------------
(* Headlines *)

fetch_news_headlines ==
    << "Cardano Surges After Positive Development Updates",
       "Experts Warn Of Possible Correction in Cardano",
       "Major Financial Institution to Begin Holding ADA Reserves",
       "Bearish Signals Emerge Despite Cardano's Strong Performance",
       "Investors Show Growing Interest in Cardano's Future" >>

----------------------------------------------------------------------------
(* Sentiment *)

Labels == {"POSITIVE", "NEGATIVE"}

\* confidences the classifier may report, in tenths
Confidences == {0, 3, 10}

ClassifierFailure == [ok |-> FALSE, label |-> "NONE", score |-> 0]

ClassifierOutcomes ==
    {ClassifierFailure}
    \cup {[ok |-> TRUE, label |-> l, score |-> c] : l \in Labels, c \in Confidences}

numeric_score_Unsigned(label, score) == score

numeric_score(label, score) == IF label = "POSITIVE" THEN score ELSE -score

RECURSIVE SumSeq(_)
SumSeq(s) == IF s = <<>> THEN 0 ELSE s[1] + SumSeq(Tail(s))

NaN == [nan |-> TRUE, num |-> 0, den |-> 1]

NoAggregate == [nan |-> FALSE, num |-> 0, den |-> 0]

np_mean_OffByOne(s) == [nan |-> FALSE, num |-> SumSeq(s), den |-> Len(s) + 1]

\* np.mean: the sum over the count; nan for the empty sequence
np_mean(s) ==
    IF Len(s) = 0 THEN NaN ELSE [nan |-> FALSE, num |-> SumSeq(s), den |-> Len(s)]

----------------------------------------------------------------------------
(* Decision *)

\* avg > t/10 and avg < t/10 on floats; every comparison with nan is False
Gt(avg, tenths) == ~avg.nan /\ avg.num > tenths * avg.den

Lt(avg, tenths) == ~avg.nan /\ avg.num < tenths * avg.den

make_decision_Inclusive(avg, current_price) ==
    IF ~avg.nan /\ avg.num >= 3 * avg.den THEN "BUY"
    ELSE IF ~avg.nan /\ avg.num <= (-3) * avg.den THEN "SELL"
    ELSE "HOLD"

make_decision(avg, current_price) ==
    IF Gt(avg, 3) THEN "BUY"
    ELSE IF Lt(avg, -3) THEN "SELL"
    ELSE "HOLD"

NoDecision == "none"

----------------------------------------------------------------------------
(* run_agentic_ai *)

Stages == <<"fetch_ada_price", "fetch_news_headlines", "analyze_sentiment", "make_decision">>

Surfaced(tag, val) == [tag |-> tag, val |-> val]

Init ==
    /\ pc = "start"
    /\ response = NotSent
    /\ n_requests = 0
    /\ price = Unset
    /\ headlines = <<>>
    /\ scores = <<>>
    /\ i = 0
    /\ classifier_log = <<>>
    /\ avg_sentiment = NoAggregate
    /\ decision = NoDecision
    /\ calls = <<>>
    /\ output = <<>>
    /\ exc = "none"

\* price = fetch_ada_price()
FetchPrice ==
    /\ pc = "start"
    /\ \E resp \in Responses :
        LET r == fetch_ada_price(resp) IN
        /\ response' = resp
        /\ n_requests' = n_requests + 1
        /\ calls' = Append(calls, "fetch_ada_price")
        /\ IF r.raised = "none"
             THEN /\ price' = r.value
                  /\ pc' = "check_price"
                  /\ exc' = exc
             ELSE /\ price' = price
                  /\ pc' = "raised"
                  /\ exc' = r.raised
    /\ UNCHANGED <<headlines, scores, i, classifier_log, avg_sentiment, decision, output>>

CheckPrice_NoReturn ==
    /\ pc = "check_price"
    /\ output' = IF price = None THEN Append(output, Surfaced("abort", price))
                                 ELSE Append(output, Surfaced("price", price))
    /\ pc' = "fetch_headlines"
    /\ UNCHANGED <<response, n_requests, price, headlines, scores, i, classifier_log,
                   avg_sentiment, decision, calls, exc>>

\* if price is None: print, return; else print the price
CheckPrice ==
    /\ pc = "check_price"
    /\ IF price = None
         THEN /\ output' = Append(output, Surfaced("abort", price))
              /\ pc' = "aborted"
         ELSE /\ output' = Append(output, Surfaced("price", price))
              /\ pc' = "fetch_headlines"
    /\ UNCHANGED <<response, n_requests, price, headlines, scores, i, classifier_log,
                   avg_sentiment, decision, calls, exc>>

\* headlines = fetch_news_headlines(); print each
FetchHeadlines ==
    /\ pc = "fetch_headlines"
    /\ headlines' = fetch_news_headlines
    /\ calls' = Append(calls, "fetch_news_headlines")
    /\ output' = Append(output, Surfaced("headlines", headlines'))
    /\ pc' = "analyze"
    /\ UNCHANGED <<response, n_requests, price, scores, i, classifier_log,
                   avg_sentiment, decision, exc>>

EnterAnalyze_SwallowError ==
    /\ pc = "analyze"
    /\ calls' = Append(calls, "analyze_sentiment")
    /\ \E loaded \in BOOLEAN :
        IF loaded
          THEN /\ scores' = <<>>
               /\ i' = 1
               /\ pc' = "loop"
          ELSE /\ UNCHANGED <<scores, i>>
               /\ pc' = "done"
    /\ UNCHANGED <<response, n_requests, price, headlines, classifier_log,
                   avg_sentiment, decision, output, exc>>

\* analyze_sentiment(headlines) is entered: the pipeline is built (it may
\* raise while loading the model), scores = []
EnterAnalyze ==
    /\ pc = "analyze"
    /\ calls' = Append(calls, "analyze_sentiment")
    /\ \E loaded \in BOOLEAN :
        IF loaded
          THEN /\ scores' = <<>>
               /\ i' = 1
               /\ pc' = "loop"
               /\ exc' = exc
          ELSE /\ UNCHANGED <<scores, i>>
               /\ pc' = "raised"
               /\ exc' = "PipelineError"
    /\ UNCHANGED <<response, n_requests, price, headlines, classifier_log,
                   avg_sentiment, decision, output>>

ScoreHeadline_SkipOnFailure ==
    /\ pc = "loop"
    /\ i <= Len(headlines)
    /\ \E out \in ClassifierOutcomes :
        /\ classifier_log' = Append(classifier_log, [headline |-> headlines[i], out |-> out])
        /\ scores' = IF out.ok THEN Append(scores, numeric_score(out.label, out.score))
                               ELSE scores
        /\ i' = i + 1
        /\ UNCHANGED <<pc, exc>>
    /\ UNCHANGED <<response, n_requests, price, headlines, avg_sentiment, decision,
                   calls, output>>

\* one iteration of the for loop: classify, sign, append
ScoreHeadline ==
    /\ pc = "loop"
    /\ i <= Len(headlines)
    /\ \E out \in ClassifierOutcomes :
        /\ classifier_log' = Append(classifier_log, [headline |-> headlines[i], out |-> out])
        /\ IF out.ok
             THEN /\ scores' = Append(scores, numeric_score(out.label, out.score))
                  /\ i' = i + 1
                  /\ UNCHANGED <<pc, exc>>
             ELSE /\ UNCHANGED <<scores, i>>
                  /\ pc' = "raised"
                  /\ exc' = "ClassifierError"
    /\ UNCHANGED <<response, n_requests, price, headlines, avg_sentiment, decision,
                   calls, output>>

\* the loop is over: avg_sentiment = np.mean(scores), returned and printed
ReturnMean ==
    /\ pc = "loop"
    /\ i > Len(headlines)
    /\ avg_sentiment' = np_mean(scores)
    /\ output' = Append(output, Surfaced("sentiment", avg_sentiment'))
    /\ pc' = "decide"
    /\ UNCHANGED <<response, n_requests, price, headlines, scores, i, classifier_log,
                   decision, calls, exc>>

Decide_FromLastScore ==
    /\ pc = "decide"
    /\ decision' = make_decision([nan |-> FALSE, num |-> scores[Len(scores)], den |-> 1], price)
    /\ calls' = Append(calls, "make_decision")
    /\ output' = Append(output, Surfaced("decision", decision'))
    /\ pc' = "done"
    /\ UNCHANGED <<response, n_requests, price, headlines, scores, i, classifier_log,
                   avg_sentiment, exc>>

\* decision = make_decision(avg_sentiment, price); print it; return
Decide ==
    /\ pc = "decide"
    /\ decision' = make_decision(avg_sentiment, price)
    /\ calls' = Append(calls, "make_decision")
    /\ output' = Append(output, Surfaced("decision", decision'))
    /\ pc' = "done"
    /\ UNCHANGED <<response, n_requests, price, headlines, scores, i, classifier_log,
                   avg_sentiment, exc>>

Next ==
    \/ FetchPrice
    \/ CheckPrice
    \/ FetchHeadlines
    \/ EnterAnalyze
    \/ ScoreHeadline
    \/ ReturnMean
    \/ Decide

Spec == Init /\ [][Next]_vars

\* The program is one thread running statement after statement: a step that
\* can be taken is taken.
FairSpec == Spec /\ WF_vars(Next)

----------------------------------------------------------------------------
(* analyze_sentiment and make_decision on any headline sequence: the run   *)
(* from the call of analyze_sentiment on, with the headline list an input. *)

MaxHeadlines == 3

SampleHeadlines ==
    {"Cardano Surges After Positive Development Updates",
     "Experts Warn Of Possible Correction in Cardano"}

HeadlineSequences == UNION {[1..n -> SampleHeadlines] : n \in 0..MaxHeadlines}

InitScorer ==
    /\ pc = "analyze"
    /\ response = [net |-> "ok", status |-> 200, body |-> [kind |-> "quote", usd |-> Num(45)]]
    /\ n_requests = 1
    /\ price = Num(45)
    /\ headlines \in HeadlineSequences
    /\ scores = <<>>
    /\ i = 0
    /\ classifier_log = <<>>
    /\ avg_sentiment = NoAggregate
    /\ decision = NoDecision
    /\ calls = <<"fetch_ada_price", "fetch_news_headlines">>
    /\ output = <<Surfaced("price", price), Surfaced("headlines", headlines)>>
    /\ exc = "none"

NextScorer ==
    \/ EnterAnalyze
    \/ ScoreHeadline
    \/ ReturnMean
    \/ Decide

SpecScorer == InitScorer /\ [][NextScorer]_vars

----------------------------------------------------------------------------
(* Helpers of the properties *)

OutputTags == [k \in 1..Len(output) |-> output[k].tag]

IsPrefix(s, t) == Len(s) <= Len(t) /\ \A k \in 1..Len(s) : s[k] = t[k]

PriceObtained == price # None /\ price # Unset

DecisionSurfaced == \E k \in 1..Len(output) : output[k].tag = "decision"

\* the states of the run as the design names them
RunState ==
    CASE pc = "done" -> "TERMINATED_SUCCESS"
      [] pc = "aborted" -> "TERMINATED_ABORT_ON_PRICE_FAILURE"
      [] pc = "raised" -> "TERMINATED_BY_EXCEPTION"
      [] OTHER -> "RUNNING"

----------------------------------------------------------------------------
(* Properties *)

\* C1: when fetch_ada_price returns None, the run invokes no later stage
\* (no headline source, no scorer, no classifier call, no decision rule),
\* surfaces nothing but the failure message and produces no Decision; the
\* driver is at the price check or has returned from it.
C1_ShortCircuit ==
    price = None =>
        /\ pc \in {"check_price", "aborted"}
        /\ calls = <<"fetch_ada_price">>
        /\ headlines = <<>>
        /\ classifier_log = <<>>
        /\ avg_sentiment = NoAggregate
        /\ decision = NoDecision
        /\ \A k \in 1..Len(output) : output[k].tag = "abort"

C1_Witness ==
    /\ pc = "aborted"
    /\ price = None
    /\ response.net = "error"
    /\ OutputTags = <<"abort">>

\* C2: the decision returned is BUY exactly when the aggregate is above 0.3,
\* SELL exactly when it is below -0.3 and HOLD otherwise (so exactly 0.3 and
\* exactly -0.3 give HOLD), and it is the same for every price argument.
C2_DecisionRule ==
    pc = "done" =>
        /\ decision \in {"BUY", "SELL", "HOLD"}
        /\ decision = "BUY" <=> avg_sentiment.num > 3 * avg_sentiment.den
        /\ decision = "SELL" <=> avg_sentiment.num < (-3) * avg_sentiment.den
        /\ decision = "HOLD" <=>
              /\ avg_sentiment.num <= 3 * avg_sentiment.den
              /\ avg_sentiment.num >= (-3) * avg_sentiment.den
        /\ \A u \in UsdValues : make_decision(avg_sentiment, u) = decision

C2_Witness ==
    /\ pc = "done"
    /\ avg_sentiment.num = 3 * avg_sentiment.den
    /\ decision = "HOLD"
    /\ price = Num(-45)

ErrorOutcome(resp) ==
    \/ resp.net = "error"
    \/ /\ resp.net = "ok"
       /\ resp.body.kind \in {"not_json", "json_array", "no_cardano", "cardano_scalar", "no_usd"}

\* C3: for a network error, a body that is not valid JSON, or JSON without
\* the cardano key or the nested usd key, fetch_ada_price raises nothing and
\* returns None; no exception of the fetcher ever leaves it.
C3_FetcherNeverRaises ==
    /\ exc \notin ExceptionSubclasses
    /\ (pc # "start" /\ ErrorOutcome(response)) =>
          /\ price = None
          /\ exc = "none"
          /\ pc \in {"check_price", "aborted"}

C3_Witness ==
    /\ pc = "check_price"
    /\ response.net = "ok"
    /\ response.body.kind = "not_json"
    /\ price = None
    /\ exc = "none"

\* C4: every response with a status other than 200 gives "price
\* unavailable": the fetcher returns None whatever the body holds, and the
\* driver aborts.
C4_NonOkStatusIsUnavailable ==
    (pc # "start" /\ response.net = "ok" /\ response.status # 200) =>
        /\ price = None
        /\ pc \in {"check_price", "aborted"}

\* C5: the fetcher returns a positive number or None, so past the price
\* check the driver holds a positive number.
C5_PricePositiveOrAbsent ==
    /\ pc # "start" => (price = None \/ (price.t = "num" /\ price.v > 0))
    /\ pc \in {"fetch_headlines", "analyze", "loop", "decide", "done"} =>
          (price.t = "num" /\ price.v > 0)

\* C6: each signed scalar appended to scores has the sign of the label the
\* classifier gave (POSITIVE: +confidence, NEGATIVE: -confidence) and the
\* confidence as its magnitude.
C6_SignedScalar ==
    /\ Len(scores) <= Len(classifier_log)
    /\ \A k \in 1..Len(scores) :
        LET o == classifier_log[k].out IN
        /\ o.ok
        /\ o.label = "POSITIVE" => (scores[k] = o.score /\ scores[k] >= 0)
        /\ o.label = "NEGATIVE" => (scores[k] = 0 - o.score /\ scores[k] <= 0)
        /\ (IF scores[k] < 0 THEN 0 - scores[k] ELSE scores[k]) = o.score

C6_Witness ==
    \E k \in 1..Len(scores) :
        /\ classifier_log[k].out.label = "NEGATIVE"
        /\ classifier_log[k].out.score = 10
        /\ scores[k] = -10

RECURSIVE SignedTotal(_)
SignedTotal(log) ==
    IF log = <<>> THEN 0
    ELSE (IF log[1].out.label = "POSITIVE" THEN log[1].out.score ELSE 0 - log[1].out.score)
         + SignedTotal(Tail(log))

\* C7: for a non-empty headline sequence, analyze_sentiment classifies every
\* headline exactly once, in input order, and returns the sum of the signed
\* scalars divided by the number of headlines.
C7_ArithmeticMean ==
    (pc \in {"decide", "done"} /\ Len(headlines) > 0) =>
        /\ Len(classifier_log) = Len(headlines)
        /\ \A k \in 1..Len(headlines) :
              /\ classifier_log[k].headline = headlines[k]
              /\ classifier_log[k].out.ok
        /\ ~avg_sentiment.nan
        /\ avg_sentiment.den > 0
        /\ avg_sentiment.num * Len(headlines) = SignedTotal(classifier_log) * avg_sentiment.den

C7_Witness ==
    /\ pc = "decide"
    /\ Len(headlines) = 2
    /\ headlines[1] # headlines[2]
    /\ avg_sentiment.num = 7
    /\ avg_sentiment.den = 2

\* C8 as stated: a run only ever ends in TERMINATED_SUCCESS or
\* TERMINATED_ABORT_ON_PRICE_FAILURE.
C8_TwoTerminalStates ==
    (~ENABLED Next) => RunState \in {"TERMINATED_SUCCESS", "TERMINATED_ABORT_ON_PRICE_FAILURE"}

TerminalStatesOK ==
    /\ (~ENABLED Next) => RunState # "RUNNING"
    /\ RunState # "RUNNING" => ~ENABLED Next
    /\ RunState = "TERMINATED_SUCCESS" => (PriceObtained /\ DecisionSurfaced /\ exc = "none")
    /\ RunState = "TERMINATED_ABORT_ON_PRICE_FAILURE" =>
          (price = None /\ ~DecisionSurfaced /\ exc = "none")
    /\ RunState = "TERMINATED_BY_EXCEPTION" =>
          (PriceObtained /\ ~DecisionSurfaced /\ exc \in {"PipelineError", "ClassifierError"})
    /\ n_requests <= 1
    /\ \A j, k \in 1..Len(calls) : calls[j] = calls[k] => j = k

\* C8, amended: a run starts RUNNING and eventually ends in exactly one of
\* three terminal states: TERMINATED_SUCCESS (a Decision was surfaced),
\* TERMINATED_ABORT_ON_PRICE_FAILURE (price absent), or ended by the
\* exception the pipeline or the classifier raised (price obtained, no
\* Decision surfaced); no stage is invoked twice.
C8_ThreeTerminalStates ==
    /\ RunState = "RUNNING"
    /\ []TerminalStatesOK
    /\ <>(RunState # "RUNNING")

C8_Witness ==
    /\ RunState = "TERMINATED_BY_EXCEPTION"
    /\ exc = "ClassifierError"
    /\ Len(classifier_log) = 5

FourValues == <<"price", "headlines", "sentiment", "decision">>

\* C9 as stated: every run in which the price was obtained ends with the
\* four stages invoked and the four values surfaced.
C9_AllStagesWheneverPriceObtained ==
    ((~ENABLED Next) /\ PriceObtained) => (calls = Stages /\ OutputTags = FourValues)

\* C9, amended: the stages are invoked in the fixed order price fetch,
\* headline source, sentiment scorer, decision rule, each at most once, the
\* price API is requested at most once, and the values are surfaced in the
\* order price, headlines, aggregate, decision; a run in which the price was
\* obtained and that is not ended by an exception of the pipeline or the
\* classifier ends with all four stages invoked exactly once, one request,
\* the four values surfaced, and the decision surfaced being the decision
\* rule applied to the aggregate surfaced; a run ended by such an exception
\* has entered the sentiment scorer and surfaced only price and headlines.
C9_StageOrder ==
    /\ IsPrefix(calls, Stages)
    /\ n_requests = (IF pc = "start" THEN 0 ELSE 1)
    /\ (IsPrefix(OutputTags, FourValues) \/ OutputTags = <<"abort">>)
    /\ Len(OutputTags) <= Len(calls)
    /\ (PriceObtained /\ ~ENABLED Next /\ exc = "none") =>
          /\ pc = "done"
          /\ calls = Stages
          /\ OutputTags = FourValues
          /\ output[1].val = price
          /\ output[2].val = fetch_news_headlines
          /\ output[3].val = avg_sentiment
          /\ output[4].val = decision
          /\ output[4].val = make_decision(output[3].val, output[1].val)
    /\ pc = "raised" =>
          /\ calls = <<"fetch_ada_price", "fetch_news_headlines", "analyze_sentiment">>
          /\ OutputTags = <<"price", "headlines">>

C9_Witness ==
    /\ pc = "done"
    /\ calls = Stages
    /\ OutputTags = FourValues
    /\ output[4].val = "SELL"

\* C10: when the classifier fails on a headline the failure leaves
\* analyze_sentiment and run_agentic_ai: that call is the last one, no
\* headline is skipped, no aggregate is computed and neither an aggregate
\* nor a Decision is surfaced; a Decision is surfaced only when the price
\* was obtained and every headline was classified successfully.
C10_ClassifierFailurePropagates ==
    /\ \A k \in 1..Len(classifier_log) :
          ~classifier_log[k].out.ok =>
              /\ k = Len(classifier_log)
              /\ pc = "raised"
              /\ exc = "ClassifierError"
              /\ Len(scores) = k - 1
              /\ avg_sentiment = NoAggregate
              /\ decision = NoDecision
              /\ OutputTags = <<"price", "headlines">>
    /\ DecisionSurfaced =>
          /\ PriceObtained
          /\ Len(classifier_log) = Len(headlines)
          /\ \A k \in 1..Len(headlines) :
                /\ classifier_log[k].out.ok
                /\ classifier_log[k].headline = headlines[k]

C10_Witness ==
    /\ pc = "raised"
    /\ exc = "ClassifierError"
    /\ Len(classifier_log) = 3
    /\ Len(scores) = 2
    /\ ~classifier_log[3].out.ok

====
